---- MODULE Spec2Model ----
(***************************************************************************)
(* Model of src/api.py: the commit evidence collector (get_commits), the   *)
(* verdict extractor (call_llm) and the /analyze handler that chains them. *)
(* Strings are sequences of one-character strings, so that the regular     *)
(* expressions, split/strip/join and substring tests of the source are     *)
(* computed character by character.                                        *)
(***************************************************************************)
EXTENDS Integers, Sequences, FiniteSets, TLC

\* ------------------------------------------------------------------ bounds
\* Largest number of commit-history pages the upstream serves.
MaxPages == 3
\* Largest number of commits the upstream holds over all its pages.
MaxCommits == 3

\* ------------------------------------------------------- string primitives
Whitespace == {" ", "\n", "\t"}
Digits == <<"0", "1", "2", "3", "4", "5", "6", "7", "8", "9">>
UpperCase == <<"A", "B", "C", "D", "E", "F", "G", "H", "I", "J", "K", "L", "M",
               "N", "O", "P", "Q", "R", "S", "T", "U", "V", "W", "X", "Y", "Z">>
LowerCase == <<"a", "b", "c", "d", "e", "f", "g", "h", "i", "j", "k", "l", "m",
               "n", "o", "p", "q", "r", "s", "t", "u", "v", "w", "x", "y", "z">>

DigitSet == {Digits[i] : i \in 1..Len(Digits)}
DigitMap == [c \in DigitSet |-> (CHOOSE i \in 1..Len(Digits) : Digits[i] = c) - 1]
LowerMap == [c \in {UpperCase[i] : i \in 1..Len(UpperCase)} |->
                LowerCase[CHOOSE i \in 1..Len(UpperCase) : UpperCase[i] = c]]
WordChars == DigitSet \cup DOMAIN LowerMap \cup {LowerCase[i] : i \in 1..Len(LowerCase)} \cup {"_"}

IsDigit(c) == c \in DigitSet
DigitVal(c) == DigitMap[c]
\* \w of the re module: letters, digits and the underscore.
IsWordChar(c) == c \in WordChars

\* str.lower() on one character and on a string.
LowerChar(c) == IF c \in DOMAIN LowerMap THEN LowerMap[c] ELSE c
Lower(s) == [i \in 1..Len(s) |-> LowerChar(s[i])]

\* str.strip(chars): removes every leading and trailing character of the set.
StripSet(s, chars) ==
    LET keep == {i \in 1..Len(s) : s[i] \notin chars}
    IN  IF keep = {} THEN <<>>
        ELSE LET lo == CHOOSE i \in keep : \A j \in keep : i <= j
                 hi == CHOOSE i \in keep : \A j \in keep : i >= j
             IN  SubSeq(s, lo, hi)
\* str.strip()
Strip(s) == StripSet(s, Whitespace)

\* str.split(sep) for a one-character separator: always at least one piece.
RECURSIVE Split(_, _)
Split(s, sep) ==
    LET hits == {i \in 1..Len(s) : s[i] = sep}
    IN  IF hits = {} THEN <<s>>
        ELSE LET p == CHOOSE i \in hits : \A j \in hits : i <= j
             IN  <<SubSeq(s, 1, p - 1)>> \o Split(SubSeq(s, p + 1, Len(s)), sep)

\* sep.join(parts)
RECURSIVE Join(_, _)
Join(parts, sep) ==
    IF parts = <<>> THEN <<>>
    ELSE IF Len(parts) = 1 THEN parts[1]
    ELSE parts[1] \o sep \o Join(Tail(parts), sep)

\* sub in s
Contains(s, sub) ==
    \E i \in 1..(Len(s) - Len(sub) + 1) : SubSeq(s, i, i + Len(sub) - 1) = sub

\* [f(x) for x in xs if x in ys]-style membership on sequences.
InSeq(x, xs) == \E i \in 1..Len(xs) : xs[i] = x

\* First index >= j of s that is not whitespace (Len(s)+1 when there is none):
\* where a greedy \s* starting at j stops.
SkipWs(s, j) ==
    CHOOSE k \in j..(Len(s) + 1) :
        /\ (k = Len(s) + 1 \/ s[k] \notin Whitespace)
        /\ \A m \in j..(k - 1) : s[m] \in Whitespace

SeqsUpTo(S, n) == UNION {[1..k -> S] : k \in 0..n}

\* ------------------------------------------------------------ the upstream
\* Python's None for a URL or a missing "next" key (api.py:74); page URLs are
\* the page numbers 1..MaxPages and API_URL is page 1.
NoUrl == 0
API_URL == 1

\* Python's None for code_diff (api.py:63), and a diff body that is present.
NoDiff == [present |-> FALSE, text |-> <<>>]
DiffText(t) == [present |-> TRUE, text |-> t]

\* The author string of every commit; it has the "Name <email>" form the
\* collector relies on.
AuthorRaw == <<"J", "o", " ", "<", "j", "@", "x", ">">>

\* Commit messages the upstream may hold: one without a tag block, one with
\* the block [A, B] between surrounding whitespace, and one with the block
\* [B ,C] (keyword in mixed case) followed by a second block [A].
MsgNoTag == <<"f", "i", "x">>
MsgAB == <<" ", "t", "e", "s", "t", "c", "a", "s", "e", ":", " ", "[", "A", ",", " ", "B", "]", "\n">>
MsgBC == <<"T", "e", "s", "t", "C", "a", "s", "e", " ", ":", "[", "B", " ", ",", "C", "]", " ",
           "t", "e", "s", "t", "c", "a", "s", "e", ":", "[", "A", "]">>

\* What the upstream holds for one commit, its hash apart: the message, the
\* author and the answer of the diff endpoint for it (status and body).
CommitKinds ==
    { [message |-> MsgNoTag, author_raw |-> AuthorRaw, diff_status |-> 200, diff_text |-> <<"+", "x">>],
      [message |-> MsgAB, author_raw |-> AuthorRaw, diff_status |-> 200, diff_text |-> <<"+", "a">>],
      [message |-> MsgBC, author_raw |-> AuthorRaw, diff_status |-> 500, diff_text |-> <<"e", "r", "r">>] }

\* Non-success statuses the transport may report for a page.
FailureStatuses == {404, 503}

\* The function_id strings a caller may send: "B, C" and "A".
RequestedIds ==
    { <<"B", ",", " ", "C">>, <<"A">> }

\* Commits of a page: the kinds in order, hashes numbered on from `used`.
WithHashes(kinds, used) ==
    [i \in 1..Len(kinds) |->
        [hash |-> used + i, message |-> kinds[i].message, author_raw |-> kinds[i].author_raw,
         diff_status |-> kinds[i].diff_status, diff_text |-> kinds[i].diff_text]]

\* Every answer the transport may give to the request for page p when the
\* pages before it held `used` commits.
PageResponses(p, used) ==
    {[status_code |-> s, values |-> <<>>, next |-> NoUrl] : s \in FailureStatuses}
    \cup
    {[status_code |-> 200, values |-> WithHashes(kinds, used), next |-> n] :
        kinds \in SeqsUpTo(CommitKinds, MaxCommits - used),
        n \in {NoUrl} \cup (IF p < MaxPages THEN {p + 1} ELSE {})}

\* ----------------------------------------------------------- get_commits
\* function_id_pattern = testcase\s*:\s*\[([^\]]+)\] with re.IGNORECASE.
Keyword == <<"t", "e", "s", "t", "c", "a", "s", "e">>
NoMatch == [found |-> FALSE, group |-> <<>>]

\* The pattern anchored at index i of s.
MatchAt(s, i) ==
    IF i + Len(Keyword) - 1 > Len(s) \/ Lower(SubSeq(s, i, i + Len(Keyword) - 1)) # Keyword
    THEN NoMatch
    ELSE LET j == SkipWs(s, i + Len(Keyword))
         IN  IF j > Len(s) \/ s[j] # ":" THEN NoMatch
             ELSE LET k == SkipWs(s, j + 1)
                  IN  IF k > Len(s) \/ s[k] # "[" THEN NoMatch
                      ELSE LET closes == {m \in (k + 1)..Len(s) : s[m] = "]"}
                           IN  IF closes = {} THEN NoMatch
                               ELSE LET c == CHOOSE m \in closes : \A n \in closes : m <= n
                                    IN  IF c = k + 1 THEN NoMatch
                                        ELSE [found |-> TRUE, group |-> SubSeq(s, k + 1, c - 1)]

\* function_id_pattern.search(message): the leftmost match.
Search(s) ==
    LET starts == {i \in 1..Len(s) : LowerChar(s[i]) = Keyword[1]}
        hits == {i \in starts : MatchAt(s, i).found}
    IN  IF hits = {} THEN NoMatch
        ELSE MatchAt(s, CHOOSE i \in hits : \A j \in hits : i <= j)

\* [x.strip() for x in s.split(",")]
SplitIds(s) ==
    LET parts == Split(s, ",")
    IN  [i \in 1..Len(parts) |-> Strip(parts[i])]

\* A variant that lists the commit's whole tag list.
MatchedIds_All(testcase_ids, filter_ids) == testcase_ids

\* [fid for fid in testcase_ids if fid in filter_ids]
MatchedIds(testcase_ids, filter_ids) ==
    SelectSeq(testcase_ids, LAMBDA fid : InSeq(fid, filter_ids))

\* A variant that takes the body of the diff response whatever its status.
CodeDiff_IgnoreStatus(commit) == DiffText(commit.diff_text)

\* code_diff = diff_response.text if diff_response.status_code == 200 else None
CodeDiff(commit) ==
    IF commit.diff_status = 200 THEN DiffText(commit.diff_text) ELSE NoDiff

\* The commit_document of a matching commit.
CommitDocument(commit, message, testcase_ids, filter_ids) ==
    [hash |-> commit.hash,
     message |-> message,
     author_username |-> Strip(Split(commit.author_raw, "<")[1]),
     author_email |-> StripSet(Strip(Split(commit.author_raw, "<")[2]), {">"}),
     function_id |-> Join(MatchedIds(testcase_ids, filter_ids), <<",", " ">>),
     code_diff |-> CodeDiff(commit)]

\* The body of the loop over a page's commits for one commit: the documents
\* it appends (none or one).
Filtered(commit, function_id) ==
    LET message == Strip(commit.message)
        match == Search(message)
        testcase_ids == SplitIds(match.group)
        filter_ids == SplitIds(function_id)
    IN  IF match.found /\ \E i \in 1..Len(filter_ids) : InSeq(filter_ids[i], testcase_ids)
        THEN <<CommitDocument(commit, message, testcase_ids, filter_ids)>>
        ELSE <<>>

\* The documents appended for the commits of one page, in page order.
RECURSIVE FilteredOfPage(_, _)
FilteredOfPage(commits, function_id) ==
    IF commits = <<>> THEN <<>>
    ELSE Filtered(Head(commits), function_id) \o FilteredOfPage(Tail(commits), function_id)

\* The hashes whose diff is requested while a page is processed.
DiffsOfPage(commits, function_id) ==
    LET docs == FilteredOfPage(commits, function_id)
    IN  [i \in 1..Len(docs) |-> docs[i].hash]

\* The value get_commits returns once the loop has ended.
CollectorResult(filtered_commits) ==
    IF filtered_commits # <<>> THEN [status |-> 200, commits |-> filtered_commits]
    ELSE [status |-> 404, commits |-> <<>>]

\* --------------------------------------------------------------- call_llm
\* progress = "None" (api.py:107) and the tokens it is compared with.
NoneStr == <<"N", "o", "n", "e">>
YesStr == <<"y", "e", "s">>
NoStr == <<"n", "o">>

\* A float as the fraction num/den, den a power of ten, in lowest such terms.
RECURSIVE Normal(_, _)
Normal(num, den) ==
    IF den > 1 /\ num % 10 = 0 THEN Normal(num \div 10, den \div 10)
    ELSE [num |-> num, den |-> den]
\* est_hours = 0 (api.py:108)
Zero == Normal(0, 1)

\* The value of a string of digits, and ten to the power of its length.
RECURSIVE DigitsValue(_)
DigitsValue(ds) ==
    IF ds = <<>> THEN 0
    ELSE 10 * DigitsValue(SubSeq(ds, 1, Len(ds) - 1)) + DigitVal(ds[Len(ds)])
RECURSIVE PowerOfTen(_)
PowerOfTen(n) == IF n = 0 THEN 1 ELSE 10 * PowerOfTen(n - 1)

\* float(n) for a token of the form \d+(\.\d+)?
Float(n) ==
    LET parts == Split(n, ".")
    IN  IF Len(parts) = 1 THEN Normal(DigitsValue(parts[1]), 1)
        ELSE Normal(DigitsValue(parts[1]) * PowerOfTen(Len(parts[2])) + DigitsValue(parts[2]),
                    PowerOfTen(Len(parts[2])))

\* \b at position p of s: between s[p-1] and s[p].
WordBoundary(s, p) ==
    LET before == p > 1 /\ IsWordChar(s[p - 1])
        after == p <= Len(s) /\ IsWordChar(s[p])
    IN  before # after

\* First index >= i of s that is not a digit: where a greedy \d+ at i stops.
DigitRunEnd(s, i) ==
    CHOOSE k \in i..(Len(s) + 1) :
        /\ (k = Len(s) + 1 \/ ~IsDigit(s[k]))
        /\ \A m \in i..(k - 1) : IsDigit(s[m])

\* \b(yes|no|\d+(?:\.\d+)?)\b with re.IGNORECASE anchored at index i of s:
\* the index after the match, or 0 when there is no match at i.
TokenEnd(s, i) ==
    IF ~WordBoundary(s, i) THEN 0
    ELSE IF i + 2 <= Len(s) /\ Lower(SubSeq(s, i, i + 2)) = YesStr /\ WordBoundary(s, i + 3)
    THEN i + 3
    ELSE IF i + 1 <= Len(s) /\ Lower(SubSeq(s, i, i + 1)) = NoStr /\ WordBoundary(s, i + 2)
    THEN i + 2
    ELSE IF ~IsDigit(s[i]) THEN 0
    ELSE LET d1 == DigitRunEnd(s, i)
             hasFraction == d1 + 1 <= Len(s) /\ s[d1] = "." /\ IsDigit(s[d1 + 1])
             d2 == IF hasFraction THEN DigitRunEnd(s, d1 + 1) ELSE d1
         IN  IF hasFraction /\ WordBoundary(s, d2) THEN d2
             ELSE IF WordBoundary(s, d1) THEN d1
             ELSE 0

\* re.findall(pattern, s): the matches left to right, from index i on.
RECURSIVE FindAll(_, _)
FindAll(s, i) ==
    IF i > Len(s) THEN <<>>
    ELSE LET e == TokenEnd(s, i)
         IN  IF e = 0 THEN FindAll(s, i + 1)
             ELSE <<SubSeq(s, i, e - 1)>> \o FindAll(s, e)

\* n.lower() in ["yes", "no"]
IsYesNo(n) == Lower(n) \in {YesStr, NoStr}

\* n.replace('.', '', 1).isdigit()
IsNumber(n) ==
    LET dots == {i \in 1..Len(n) : n[i] = "."}
        rest == IF dots = {} THEN n
                ELSE LET p == CHOOSE i \in dots : \A j \in dots : i <= j
                     IN  SubSeq(n, 1, p - 1) \o SubSeq(n, p + 1, Len(n))
    IN  rest # <<>> /\ \A i \in 1..Len(rest) : IsDigit(rest[i])

\* The loop with break over numbers (api.py:116-119).
Progress(numbers) ==
    LET answers == SelectSeq(numbers, IsYesNo)
    IN  IF answers = <<>> THEN NoneStr ELSE Lower(answers[1])

\* A variant that takes the last numeric token.
EstHours_Last(numbers) ==
    LET num_values == SelectSeq(numbers, IsNumber)
    IN  IF Len(num_values) >= 1 THEN Float(num_values[Len(num_values)]) ELSE Zero

\* num_values and est_hours (api.py:121-123).
EstHours(numbers) ==
    LET num_values == SelectSeq(numbers, IsNumber)
    IN  IF Len(num_values) >= 1 THEN Float(num_values[1]) ELSE Zero

\* The parse of the judge's reply (api.py:103-127).
ParseAnswer(text) ==
    LET ans == Strip(text)
        numbers == FindAll(ans, 1)
    IN  [status |-> 200, progress |-> Progress(numbers), est_hours |-> EstHours(numbers)]

\* A variant that looks for "token" only.
JudgeError_TokenOnly(text) ==
    IF Contains(text, <<"t", "o", "k", "e", "n">>)
    THEN [status |-> 413, progress |-> NoneStr, est_hours |-> Zero]
    ELSE [status |-> 500, progress |-> NoneStr, est_hours |-> Zero]

\* The except branch (api.py:128-134) for an error whose str() is text.
JudgeError(text) ==
    IF Contains(text, <<"c", "o", "n", "t", "e", "x", "t", " ", "w", "i", "n", "d", "o", "w">>)
       \/ Contains(text, <<"t", "o", "k", "e", "n">>)
    THEN [status |-> 413, progress |-> NoneStr, est_hours |-> Zero]
    ELSE [status |-> 500, progress |-> NoneStr, est_hours |-> Zero]

\* call_llm for one outcome of model.generate_content.
CallLlm(outcome) ==
    IF outcome.raises THEN JudgeError(outcome.text) ELSE ParseAnswer(outcome.text)

\* What the judge may do: reply with a text or raise an error with a text.
Reply(t) == [called |-> TRUE, raises |-> FALSE, text |-> t]
Raise(t) == [called |-> TRUE, raises |-> TRUE, text |-> t]
NotCalled == [called |-> FALSE, raises |-> FALSE, text |-> <<>>]

ReplyNo8 == <<"n", "o", ",", " ", "8", ",", " ", "4", "5", "0">>
ReplyYesFraction == <<" ", "Y", "e", "s", ".", " ", "1", ".", "5", "0", " ", "h", "\n">>
ReplyNumberFirst == <<"1", "2", " ", "y", "e", "s", " ", "n", "o">>
ReplyMaybe == <<"m", "a", "y", "b", "e">>
ReplyAbout8 == <<"a", "b", "o", "u", "t", " ", "8">>
ReplyGlued == <<"n", "o", "p", "e", " ", "1", "2", "h">>
ErrToken == <<"t", "o", "k", "e", "n", " ", "l", "i", "m", "i", "t">>
ErrContext == <<"c", "o", "n", "t", "e", "x", "t", " ", "w", "i", "n", "d", "o", "w">>
ErrOther == <<"t", "i", "m", "e", "o", "u", "t">>

JudgeOutcomes ==
    {Reply(t) : t \in {ReplyNo8, ReplyYesFraction, ReplyNumberFirst, ReplyMaybe, ReplyAbout8, ReplyGlued}}
    \cup {Raise(t) : t \in {ErrToken, ErrContext, ErrOther}}

\* ------------------------------------------------------------------ state
VARIABLES
    pc,                \* "get_commits", "collected" (get_commits returned), "done"
    function_id,       \* req.function_id
    next_url,          \* get_commits: next_url
    first_connection,  \* get_commits: first_connection
    filtered_commits,  \* get_commits: filtered_commits
    result,            \* what get_commits returned: code_status and the commits
    requests,          \* the page URLs requested so far, in order
    diff_requests,     \* the hashes whose diff was requested so far, in order
    served,            \* the transport's answers to the page requests, in order
    judge,             \* what the judge did when it was called
    llm,               \* what call_llm returned
    response           \* what analyze answered

vars == <<pc, function_id, next_url, first_connection, filtered_commits, result,
          requests, diff_requests, served, judge, llm, response>>

NoResult == [status |-> 0, commits |-> <<>>]
NoVerdict == [status |-> 0, progress |-> NoneStr, est_hours |-> Zero]
NoResponse == [kind |-> "pending"]

\* The commits of the pages served so far, in traversal order.
RECURSIVE Concat(_)
Concat(pages) ==
    IF pages = <<>> THEN <<>> ELSE Head(pages).values \o Concat(Tail(pages))
Traversed == Concat(served)

Init ==
    /\ pc = "get_commits"
    /\ function_id \in RequestedIds
    /\ next_url = API_URL
    /\ first_connection = TRUE
    /\ filtered_commits = <<>>
    /\ result = NoResult
    /\ requests = <<>>
    /\ diff_requests = <<>>
    /\ served = <<>>
    /\ judge = NotCalled
    /\ llm = NoVerdict
    /\ response = NoResponse

\* A variant that never follows the "next" pointer.
NextUrl_Stop(resp) == NoUrl

\* next_url after a page (api.py:74).
NextUrl(resp) == IF resp.status_code = 200 THEN resp.next ELSE NoUrl

\* A variant that puts the documents of a page in front of the earlier ones.
AfterPage_Prepend(resp, docs, fid) ==
    IF resp.status_code = 200 THEN FilteredOfPage(resp.values, fid) \o docs ELSE docs

\* filtered_commits after a page (api.py:46-73).
AfterPage(resp, docs, fid) ==
    IF resp.status_code = 200 THEN docs \o FilteredOfPage(resp.values, fid) ELSE docs

\* One iteration of the while loop of get_commits (api.py:36-74), with the
\* return that follows the loop when next_url has become None (api.py:76-79).
FetchPage ==
    /\ pc = "get_commits"
    /\ next_url # NoUrl
    /\ \E resp \in PageResponses(next_url, Len(Traversed)) :
        /\ requests' = Append(requests, next_url)
        /\ served' = Append(served, resp)
        /\ IF first_connection /\ resp.status_code # 200
           THEN /\ result' = [status |-> resp.status_code, commits |-> <<>>]
                /\ pc' = "collected"
                /\ UNCHANGED <<next_url, first_connection, filtered_commits, diff_requests>>
           ELSE /\ first_connection' = FALSE
                /\ filtered_commits' = AfterPage(resp, filtered_commits, function_id)
                /\ diff_requests' =
                      IF resp.status_code = 200
                      THEN diff_requests \o DiffsOfPage(resp.values, function_id)
                      ELSE diff_requests
                /\ next_url' = NextUrl(resp)
                /\ IF next_url' = NoUrl
                   THEN /\ result' = CollectorResult(filtered_commits')
                        /\ pc' = "collected"
                   ELSE UNCHANGED <<result, pc>>
    /\ UNCHANGED <<function_id, judge, llm, response>>

\* analyze when get_commits did not return 200 (api.py:147-150).
AnalyzeCollectorError ==
    /\ pc = "collected"
    /\ result.status # 200
    /\ response' =
          IF result.status = 404
          THEN [kind |-> "HTTPException", status_code |-> 404,
                detail |-> "No commits found for the given function ID(s)."]
          ELSE [kind |-> "HTTPException", status_code |-> result.status,
                detail |-> "Failed to connect to Bitbucket."]
    /\ pc' = "done"
    /\ UNCHANGED <<function_id, next_url, first_connection, filtered_commits, result,
                   requests, diff_requests, served, judge, llm>>

\* A variant that raises for status 413 only.
Answer_Only413(verdict) ==
    IF verdict.status = 413
    THEN [kind |-> "HTTPException", status_code |-> 413, detail |-> "LLM input too large."]
    ELSE [kind |-> "ok", status |-> "success", progress |-> verdict.progress,
          estimated_hours |-> verdict.est_hours]

\* What analyze answers for the value call_llm returned (api.py:154-163).
Answer(verdict) ==
    IF verdict.status = 413
    THEN [kind |-> "HTTPException", status_code |-> 413, detail |-> "LLM input too large."]
    ELSE IF verdict.status # 200
    THEN [kind |-> "HTTPException", status_code |-> verdict.status,
          detail |-> "LLM processing failed."]
    ELSE [kind |-> "ok", status |-> "success", progress |-> verdict.progress,
          estimated_hours |-> verdict.est_hours]

\* analyze when get_commits returned 200: call_llm and the answer (api.py:152-163).
AnalyzeJudge ==
    /\ pc = "collected"
    /\ result.status = 200
    /\ \E outcome \in JudgeOutcomes :
        /\ judge' = outcome
        /\ llm' = CallLlm(outcome)
        /\ response' = Answer(llm')
    /\ pc' = "done"
    /\ UNCHANGED <<function_id, next_url, first_connection, filtered_commits, result,
                   requests, diff_requests, served>>

Next == FetchPage \/ AnalyzeCollectorError \/ AnalyzeJudge

Spec == Init /\ [][Next]_vars

\* -------------------------------------------------------------- properties
\* get_commits has just returned; analyze has not yet acted on the result.
\* (The steps of analyze leave every variable of get_commits unchanged.)
Returned == pc = "collected"
\* get_commits is still paging.
Paging == pc = "get_commits"
\* Every page request so far was answered with status 200.
AllPagesOk == \A i \in 1..Len(served) : served[i].status_code = 200
\* Some page request was answered with a non-success status.
PageFailed == \E i \in 1..Len(served) : served[i].status_code # 200
\* The ids the caller asked for, as a set.
RequestedSet ==
    LET ids == SplitIds(function_id)
    IN  {ids[i] : i \in 1..Len(ids)}
\* The ids of the tag block the pattern search finds in a message (its first
\* block), in the order written; empty when the message has no tag block.
DeclaredTags(message) ==
    LET m == Search(Strip(message))
    IN  IF m.found THEN SplitIds(m.group) ELSE <<>>
\* The commit declares at least one requested id.
HasRequestedTag(commit) ==
    LET declared == DeclaredTags(commit.message)
        requested == RequestedSet
    IN  \E i \in 1..Len(declared) : declared[i] \in requested
\* The hashes of a sequence of commits or documents.
Hashes(xs) == [i \in 1..Len(xs) |-> xs[i].hash]
\* Least element of a non-empty set of numbers.
Least(S) == CHOOSE i \in S : \A j \in S : i <= j

\* C1: when the first page request is answered with a non-success status s,
\* get_commits returns (s, []) after that single request and without any diff
\* request, and the result differs from the no-matches result (404, []).
C1_FirstPageFailure ==
    (Returned /\ served[1].status_code # 200) =>
        /\ result = [status |-> served[1].status_code, commits |-> <<>>]
        /\ Len(requests) = 1
        /\ diff_requests = <<>>
        /\ result # [status |-> 404, commits |-> <<>>]

\* C2: once any page request (first or later) was answered with a non-success
\* status get_commits does not return 200, and once a page request failed or
\* the judge raised an error analyze does not answer with success.
C2_FailuresSurfaced ==
    /\ (Returned /\ PageFailed) => result.status # 200
    /\ (pc = "done" /\ (PageFailed \/ judge.raises)) => response.kind # "ok"

\* C3: when every page succeeded and get_commits has returned after N page
\* requests, the upstream had exactly N pages (only the N-th answer omits the
\* "next" pointer), the requests were for API_URL and then for each page's
\* "next" in turn, and every commit of every page that declares a requested id
\* is in the returned sequence.
C3_Pagination ==
    (Returned /\ AllPagesOk) =>
        /\ Len(requests) = Len(served)
        /\ served[Len(served)].next = NoUrl
        /\ \A i \in 1..(Len(served) - 1) : served[i].next # NoUrl
        /\ requests[1] = API_URL
        /\ \A i \in 1..(Len(served) - 1) : requests[i + 1] = served[i].next
        /\ \A i \in 1..Len(served) : \A j \in 1..Len(served[i].values) :
              HasRequestedTag(served[i].values[j]) =>
                  InSeq(served[i].values[j].hash, Hashes(result.commits))
\* Three pages were requested, and the first and the third each contributed.
C3_Witness ==
    /\ Returned /\ AllPagesOk /\ Len(served) = 3
    /\ \E j \in 1..Len(served[1].values) : InSeq(served[1].values[j].hash, Hashes(result.commits))
    /\ \E j \in 1..Len(served[3].values) : InSeq(served[3].values[j].hash, Hashes(result.commits))

\* C4: the ids listed in a document's function_id are exactly the ids of the
\* commit's tag list that were requested, in the tag list's order, and for the
\* tag list [A, B] with requested ids {B, C} the function_id is "B".
C4_FunctionId ==
    pc # "done" => \A k \in 1..Len(filtered_commits) :
        LET doc == filtered_commits[k]
            listed == SplitIds(doc.function_id)
            declared == DeclaredTags(doc.message)
        IN  /\ \A i \in 1..Len(listed) : InSeq(listed[i], declared) /\ listed[i] \in RequestedSet
            /\ \A i \in 1..Len(declared) : declared[i] \in RequestedSet => InSeq(declared[i], listed)
            /\ listed = SelectSeq(declared, LAMBDA t : InSeq(t, listed))
            /\ (declared = <<<<"A">>, <<"B">>>> /\ RequestedSet = {<<"B">>, <<"C">>})
                  => doc.function_id = <<"B">>
\* A commit tagged [A, B] was collected for the requested ids {B, C}.
C4_Witness ==
    /\ RequestedSet = {<<"B">>, <<"C">>}
    /\ \E k \in 1..Len(filtered_commits) :
          /\ DeclaredTags(filtered_commits[k].message) = <<<<"A">>, <<"B">>>>
          /\ filtered_commits[k].function_id = <<"B">>

C6_NoneMeansZero ==
    judge.called => (llm.progress = NoneStr => llm.est_hours = Zero)

\* C7: for a textual reply call_llm returns status 200, the first yes/no token
\* lower-cased (the "none" value without one) and the value of the first
\* numeric token (0 without one), whatever the order of the two kinds and
\* whatever follows; "no, 8, 450" gives ("no", 8) and "12 yes no" ("yes", 12).
C7_FirstOfEachKind ==
    (judge.called /\ ~judge.raises) =>
        LET tokens == FindAll(Strip(judge.text), 1)
            answers == {i \in 1..Len(tokens) : IsYesNo(tokens[i])}
            figures == {i \in 1..Len(tokens) : IsNumber(tokens[i])}
        IN  /\ llm.status = 200
            /\ llm.progress = IF answers = {} THEN NoneStr ELSE Lower(tokens[Least(answers)])
            /\ llm.est_hours = IF figures = {} THEN Zero ELSE Float(tokens[Least(figures)])
            /\ judge.text = ReplyNo8 => llm.progress = NoStr /\ llm.est_hours = [num |-> 8, den |-> 1]
            /\ judge.text = ReplyNumberFirst =>
                  llm.progress = YesStr /\ llm.est_hours = [num |-> 12, den |-> 1]
\* The judge replied "no, 8, 450".
C7_Witness ==
    /\ judge.called /\ judge.text = ReplyNo8
    /\ llm = [status |-> 200, progress |-> NoStr, est_hours |-> [num |-> 8, den |-> 1]]

\* C8: a traversed commit that declares a requested id and whose diff request
\* failed has a document with code_diff absent and the other fields filled;
\* the requested commits after it have documents too, paging goes on after
\* its page, and get_commits returns 200 with that document.
C8_DiffUnavailable ==
    LET commits == Traversed
        last == served[Len(served)]
    IN  pc # "done" => \A i \in 1..Len(commits) :
        (commits[i].diff_status # 200 /\ HasRequestedTag(commits[i])) =>
            /\ \E k \in 1..Len(filtered_commits) :
                  /\ filtered_commits[k].hash = commits[i].hash
                  /\ filtered_commits[k].code_diff = NoDiff
                  /\ filtered_commits[k].message = Strip(commits[i].message)
                  /\ filtered_commits[k].author_username = <<"J", "o">>
                  /\ filtered_commits[k].author_email = <<"j", "@", "x">>
                  /\ filtered_commits[k].function_id # <<>>
            /\ \A j \in (i + 1)..Len(commits) :
                  HasRequestedTag(commits[j]) => InSeq(commits[j].hash, Hashes(filtered_commits))
            /\ Paging => next_url = last.next
            /\ Returned =>
                  /\ result.status = 200
                  /\ InSeq(commits[i].hash, Hashes(result.commits))
                  /\ last.status_code = 200 => last.next = NoUrl
\* A document without a diff was returned, followed by a document of a later
\* page.
C8_Witness ==
    /\ Returned /\ AllPagesOk /\ result.status = 200 /\ Len(served) >= 2
    /\ Len(result.commits) >= 2
    /\ result.commits[1].code_diff = NoDiff
    /\ InSeq(result.commits[1].hash, Hashes(served[1].values))
    /\ ~InSeq(result.commits[2].hash, Hashes(served[1].values))

\* C9: when the judge raises an error call_llm returns the "none" value and 0
\* hours with status 413 if the error text has "token" or "context window" in
\* it and 500 otherwise, never 200, and analyze answers with that error.
C9_JudgeError ==
    judge.raises =>
        /\ llm.progress = NoneStr
        /\ llm.est_hours = Zero
        /\ llm.status # 200
        /\ llm.status = IF judge.text \in {ErrToken, ErrContext} THEN 413 ELSE 500
        /\ response.kind = "HTTPException"
        /\ response.status_code = llm.status
\* The judge raised a "context window" error.
C9_Witness ==
    /\ judge.raises /\ judge.text = ErrContext
    /\ llm.status = 413

\* C10 as claimed: analyze ends either in the success answer, given only when
\* get_commits and call_llm both returned 200, or in an error whose status is
\* 404, 413 or the failure status of the first page request.
C10_ListedOutcomes ==
    pc = "done" =>
        \/ /\ response.kind = "ok"
           /\ response.status = "success"
           /\ result.status = 200 /\ llm.status = 200
        \/ /\ response.kind = "HTTPException"
           /\ \/ response.status_code \in {404, 413}
              \/ served[1].status_code # 200 /\ response.status_code = served[1].status_code

\* C10 amended: analyze ends either in the success answer, given only when
\* get_commits and call_llm both returned 200, or in an error whose status is
\* 404, 413, 500 after a judge error that call_llm reported as 500, or the
\* failure status of the first page request.
C10_OutcomesWithJudgeFailure ==
    pc = "done" =>
        \/ /\ response.kind = "ok"
           /\ response.status = "success"
           /\ response.progress = llm.progress /\ response.estimated_hours = llm.est_hours
           /\ result.status = 200 /\ llm.status = 200
        \/ /\ response.kind = "HTTPException"
           /\ \/ response.status_code = 404 /\ result = [status |-> 404, commits |-> <<>>]
              \/ response.status_code = 413 /\ result.status = 200 /\ llm.status = 413
              \/ response.status_code = 500 /\ result.status = 200 /\ judge.raises /\ llm.status = 500
              \/ served[1].status_code # 200 /\ response.status_code = served[1].status_code
\* analyze answered 500 after a judge error.
C10_Witness ==
    /\ pc = "done" /\ judge.raises
    /\ response.kind = "HTTPException" /\ response.status_code = 500

====
